---- MODULE Spec2Model ----
(***************************************************************************)
(* The poll-resolution state machine of sdp-backend (src/poll.rs) and the  *)
(* command ledger it reads and writes (src/command.rs, table Commands).    *)
(*                                                                         *)
(* Time is counted in whole seconds, the unit in which the code compares   *)
(* timestamps (Duration::num_seconds).  The ledger is the sequence of the  *)
(* rows of table Commands in insertion order; command_id is the serial    *)
(* key, that is the position of the row.                                   *)
(***************************************************************************)
EXTENDS Integers, Sequences, FiniteSets, TLC

VARIABLES
    ledger,     \* the rows of table Commands
    now,        \* chrono::Utc::now(), in seconds
    last,       \* the call on the backend whose response is being returned
    polls       \* the calls of Poll::poll in progress, each at one of its awaits

vars == <<ledger, now, last, polls>>

----------------------------------------------------------------------------
(* Constants of the program *)

MINIMUM_BATTERY_LEVEL == 50
TIME_ISSUED_BUFFER == 1000
TIME_INSTRUCTION_BUFFER == 1000

(* Bounds of the model *)

\* the ledger holds at most MaxRows rows
MaxRows == 2
\* no time passes between two calls once the clock has reached MaxNow
MaxNow == 1001

Robots == {"R1"}

\* the time that passes between two calls when the robots are away
TickSteps == {TIME_INSTRUCTION_BUFFER - 2, TIME_INSTRUCTION_BUFFER - 1}

\* battery levels a poll reports
BatteryLevels == {-1, 0, MINIMUM_BATTERY_LEVEL, MINIMUM_BATTERY_LEVEL + 1, 90, 100, 101}

----------------------------------------------------------------------------
(* enum Instruction, enum AbortReason, enum CleaningPattern *)

CleaningPattern == {"ZigZag", "Circular"}
AbortReason == {"LowBattery", "Saftey", "Obstacle"}

Continue == <<"Continue">>
Pause == <<"Pause">>
Abort(reason) == <<"Abort", reason>>
Task(pattern) == <<"Task", pattern>>
Idle == <<"Idle">>

Instruction ==
    {Continue, Pause, Idle}
        \cup {Abort(reason) : reason \in AbortReason}
        \cup {Task(pattern) : pattern \in CleaningPattern}

IsTask(i) == i[1] = "Task"
IsAbort(i) == i[1] = "Abort"

(* serde_json::to_string(instruction): the externally tagged encoding *)
to_string(i) ==
    IF i = Continue THEN "\"Continue\""
    ELSE IF i = Pause THEN "\"Pause\""
    ELSE IF i = Idle THEN "\"Idle\""
    ELSE IF i = Abort("LowBattery") THEN "{\"Abort\":\"LowBattery\"}"
    ELSE IF i = Abort("Saftey") THEN "{\"Abort\":\"Saftey\"}"
    ELSE IF i = Abort("Obstacle") THEN "{\"Abort\":\"Obstacle\"}"
    ELSE IF i = Task("ZigZag") THEN "{\"Task\":\"ZigZag\"}"
    ELSE "{\"Task\":\"Circular\"}"

(* serde_json::from_str(text).unwrap_or(Instruction::Abort(AbortReason::Saftey)) *)
from_str(text) ==
    IF \E i \in Instruction : to_string(i) = text
    THEN CHOOSE i \in Instruction : to_string(i) = text
    ELSE Abort("Saftey")

----------------------------------------------------------------------------
(* struct Command and the rows of table Commands *)

NoCommand == [command_id |-> 0]

\* the row INSERT stores: completed defaults to false, command_id is serial
Row(id, robot, time_issued, time_instruction, text) ==
    [command_id |-> id,
     robot_serial_number |-> robot,
     time_issued |-> time_issued,
     time_instruction |-> time_instruction,
     instruction |-> text,
     completed |-> FALSE]

\* the Command that current and pending build from a row they read
FromRow(row) ==
    [command_id |-> row.command_id,
     robot_serial_number |-> row.robot_serial_number,
     time_issued |-> row.time_issued,
     time_instruction |-> row.time_issued,
     instruction |-> from_str(row.instruction),
     completed |-> row.completed]

\* (a - b).num_seconds().abs()
num_seconds_abs(a, b) == IF a >= b THEN a - b ELSE b - a

\* the INSERT as it would be if it kept one row for each robot and wrote over it
Insert_upsert(l, robot, time_issued, time_instruction, text) ==
    IF \E k \in DOMAIN l : l[k].robot_serial_number = robot
    THEN [k \in DOMAIN l |->
            IF l[k].robot_serial_number = robot
            THEN Row(k, robot, time_issued, time_instruction, text)
            ELSE l[k]]
    ELSE Append(l, Row(Len(l) + 1, robot, time_issued, time_instruction, text))

\* INSERT INTO Commands ... RETURNING command_id
Insert(l, robot, time_issued, time_instruction, text) ==
    Append(l, Row(Len(l) + 1, robot, time_issued, time_instruction, text))

\* the UPDATE as it would be if it flipped the flag instead of setting it
Update_toggle(l, id) ==
    [k \in DOMAIN l |-> IF l[k].command_id = id
                        THEN [l[k] EXCEPT !.completed = ~l[k].completed]
                        ELSE l[k]]

\* UPDATE Commands C SET completed = true WHERE C.command_id = $1
Update(l, id) ==
    [k \in DOMAIN l |-> IF l[k].command_id = id
                        THEN [l[k] EXCEPT !.completed = TRUE]
                        ELSE l[k]]

\* the ids of the rows of a robot
RowsOf(l, robot) == {k \in DOMAIN l : l[k].robot_serial_number = robot}

\* SELECT * FROM Commands C NATURAL JOIN (SELECT MAX(C1.time_issued), $1 ...):
\* the rows of the robot whose time_issued is the greatest; none when the
\* robot has no row (MAX is then NULL and joins with nothing)
CurrentRows(l, robot) ==
    {k \in RowsOf(l, robot) :
        \A j \in RowsOf(l, robot) : l[j].time_issued <= l[k].time_issued}

\* the SELECT of pending as it would be with ORDER BY C.time_instruction ASC
PendingHeads_oldest_first(l, robot) ==
    LET open == {k \in RowsOf(l, robot) : ~l[k].completed}
    IN  {k \in open :
            \A j \in open : l[j].time_instruction >= l[k].time_instruction}

\* the SELECT of pending as it would be without C.robot_serial_number = $1
PendingHeads_any_robot(l, robot) ==
    LET open == {k \in DOMAIN l : ~l[k].completed}
    IN  {k \in open :
            \A j \in open : l[j].time_instruction <= l[k].time_instruction}

\* SELECT ... WHERE completed = false ORDER BY time_instruction DESC: the rows
\* that may come first in the result
PendingHeads(l, robot) ==
    LET open == {k \in RowsOf(l, robot) : ~l[k].completed}
    IN  {k \in open :
            \A j \in open : l[j].time_instruction <= l[k].time_instruction}

----------------------------------------------------------------------------
(* Outcomes.  A function of the backend is the set of the outcomes it can  *)
(* have: the ledger it leaves, the error it returns ("ok" for none), the   *)
(* Command it returns, the queries it ran in order, and those of them on   *)
(* which the database itself failed.  A query is written with its         *)
(* argument: <<"current", robot>>, <<"pending", robot>>,                   *)
(* <<"insert", robot>>, <<"complete", command_id>>.                        *)

Outcome(l, err, cmd, calls, fault) ==
    [ledger |-> l, err |-> err, cmd |-> cmd, calls |-> calls, fault |-> fault]

\* the outcome o of a step followed by the outcomes of what runs after it
AndThen(o, rest) ==
    {[r EXCEPT !.calls = o.calls \o r.calls, !.fault = o.fault \cup r.fault] :
        r \in rest}

----------------------------------------------------------------------------
(* impl Command *)

\* valid_time_instruction as it would be with the comparison turned round
valid_time_instruction_inverted(cmd, t) ==
    num_seconds_abs(t, cmd.time_instruction) >= TIME_INSTRUCTION_BUFFER

valid_time_instruction(cmd, t) ==
    num_seconds_abs(t, cmd.time_instruction) < TIME_INSTRUCTION_BUFFER

\* new as it would be if it took the difference without abs(): a time_issued
\* in the future is then never outside the buffer
new_without_abs(l, t, robot, time_issued, time_instruction, instruction) ==
    IF t - time_issued > TIME_ISSUED_BUFFER
    THEN {Outcome(l, "CommandNotInTimeIssuedBuffer", NoCommand, <<>>, {})}
    ELSE {Outcome(l, "DatabaseConnFailed", NoCommand, <<<<"insert", robot>>>>, {"insert"}),
          Outcome(Insert(l, robot, time_issued, time_instruction,
                         to_string(instruction)),
                  "ok",
                  [command_id |-> Len(l) + 1,
                   robot_serial_number |-> robot,
                   time_issued |-> time_issued,
                   time_instruction |-> time_instruction,
                   instruction |-> instruction,
                   completed |-> FALSE],
                  <<<<"insert", robot>>>>, {})}

new(l, t, robot, time_issued, time_instruction, instruction) ==
    IF num_seconds_abs(t, time_issued) > TIME_ISSUED_BUFFER
    THEN {Outcome(l, "CommandNotInTimeIssuedBuffer", NoCommand, <<>>, {})}
    ELSE {Outcome(l, "DatabaseConnFailed", NoCommand, <<<<"insert", robot>>>>, {"insert"}),
          Outcome(Insert(l, robot, time_issued, time_instruction,
                         to_string(instruction)),
                  "ok",
                  [command_id |-> Len(l) + 1,
                   robot_serial_number |-> robot,
                   time_issued |-> time_issued,
                   time_instruction |-> time_instruction,
                   instruction |-> instruction,
                   completed |-> FALSE],
                  <<<<"insert", robot>>>>, {})}

current(l, robot) ==
    {Outcome(l, "DatabaseConnFailed", NoCommand, <<<<"current", robot>>>>, {"current"})}
        \cup
    IF CurrentRows(l, robot) = {}
    THEN {Outcome(l, "DatabaseConnFailed", NoCommand, <<<<"current", robot>>>>, {})}
    ELSE {Outcome(l, "ok", FromRow(l[k]), <<<<"current", robot>>>>, {}) :
            k \in CurrentRows(l, robot)}

complete(l, cmd) ==
    {Outcome(l, "DatabaseConnFailed", NoCommand, <<<<"complete", cmd.command_id>>>>,
             {"complete"}),
     Outcome(Update(l, cmd.command_id), "ok", NoCommand,
             <<<<"complete", cmd.command_id>>>>, {})}

\* abort as it would be if it dropped the reason it is given
abort_any_reason(l, t, robot, reason) == new(l, t, robot, t, t, Abort("LowBattery"))

abort(l, t, robot, reason) == new(l, t, robot, t, t, Abort(reason))

idle(l, t, robot) == new(l, t, robot, t, t, Idle)

task(l, t, robot, cleaning_pattern) == new(l, t, robot, t, t, Task(cleaning_pattern))

pending(l, t, robot) ==
    {Outcome(l, "DatabaseConnFailed", NoCommand, <<<<"pending", robot>>>>, {"pending"})}
        \cup
    LET read == Outcome(l, "ok", NoCommand, <<<<"pending", robot>>>>, {})
    IN  IF PendingHeads(l, robot) = {}
        THEN AndThen(read, idle(l, t, robot))
        ELSE UNION {
                IF valid_time_instruction(FromRow(l[k]), t)
                THEN {Outcome(l, "ok", FromRow(l[k]), <<<<"pending", robot>>>>, {})}
                ELSE AndThen(read, idle(l, t, robot)) :
                k \in PendingHeads(l, robot)}

----------------------------------------------------------------------------
(* impl Poll *)

\* check_battery as it would be with >= for > on the minimum level
check_battery_inclusive(battery_level) ==
    /\ battery_level >= 0
    /\ battery_level >= MINIMUM_BATTERY_LEVEL
    /\ battery_level <= 100

check_battery(battery_level) ==
    /\ battery_level >= 0
    /\ battery_level > MINIMUM_BATTERY_LEVEL
    /\ battery_level <= 100

\* the match as it would be with the guard of the second arm negated
MatchArm_guard_negated(prev, next) ==
    IF IsAbort(next) THEN "abort"
    ELSE IF IsTask(prev) /\ IsTask(next) /\ prev # next THEN "same_task"
    ELSE IF IsTask(prev) /\ next = Idle THEN "task_done"
    ELSE IF next = Idle THEN "idle"
    ELSE "unsupported"

\* the match as it would be without the guard of the second arm
MatchArm_no_guard(prev, next) ==
    IF IsAbort(next) THEN "abort"
    ELSE IF IsTask(prev) /\ IsTask(next) THEN "same_task"
    ELSE IF IsTask(prev) /\ next = Idle THEN "task_done"
    ELSE IF next = Idle THEN "idle"
    ELSE "unsupported"

\* the match as it would be with the arm (_, Idle) before the arm (Task(_), Idle)
MatchArm_idle_first(prev, next) ==
    IF IsAbort(next) THEN "abort"
    ELSE IF IsTask(prev) /\ IsTask(next) /\ prev = next THEN "same_task"
    ELSE IF next = Idle THEN "idle"
    ELSE IF IsTask(prev) /\ next = Idle THEN "task_done"
    ELSE "unsupported"

\* the arm of the match on (prev_command.instruction, next_command.instruction)
MatchArm(prev, next) ==
    IF IsAbort(next) THEN "abort"
    ELSE IF IsTask(prev) /\ IsTask(next) /\ prev = next THEN "same_task"
    ELSE IF IsTask(prev) /\ next = Idle THEN "task_done"
    ELSE IF next = Idle THEN "idle"
    ELSE "unsupported"

\* the match as it would be with complete(conn).await? for .ok(): a failure of
\* complete is returned
Resolve_complete_propagates(t, robot, next, c) ==
    LET prev_command == c.cmd
        l == c.ledger
        arm == MatchArm(prev_command.instruction, next)
    IN  IF arm = "abort"
        THEN UNION {IF d.err # "ok" THEN {d}
                    ELSE AndThen(d, abort(d.ledger, t, robot, next[2])) :
                        d \in AndThen(c, complete(l, prev_command))}
        ELSE IF arm = "same_task"
        THEN {c}
        ELSE IF arm = "task_done"
        THEN UNION {IF d.err # "ok" THEN {d}
                    ELSE AndThen(d, pending(d.ledger, t, prev_command.robot_serial_number)) :
                        d \in AndThen(c, complete(l, prev_command))}
        ELSE IF arm = "idle"
        THEN AndThen(c, pending(l, t, prev_command.robot_serial_number))
        ELSE {Outcome(l, "CmdInstructionNotSupported", NoCommand, c.calls, c.fault)}

\* the match of poll, given the outcome c of Command::current
Resolve(t, robot, next, c) ==
    LET prev_command == c.cmd
        l == c.ledger
        arm == MatchArm(prev_command.instruction, next)
    IN  IF arm = "abort"
        THEN UNION {AndThen(d, abort(d.ledger, t, robot, next[2])) :
                        d \in AndThen(c, complete(l, prev_command))}
        ELSE IF arm = "same_task"
        THEN {c}
        ELSE IF arm = "task_done"
        THEN UNION {AndThen(d, pending(d.ledger, t, prev_command.robot_serial_number)) :
                        d \in AndThen(c, complete(l, prev_command))}
        ELSE IF arm = "idle"
        THEN AndThen(c, pending(l, t, prev_command.robot_serial_number))
        ELSE {Outcome(l, "CmdInstructionNotSupported", NoCommand, c.calls, c.fault)}

\* the outcomes of Poll::poll, each with the Command that current returned
poll(l, t, robot, instruction, battery_level) ==
    IF ~check_battery(battery_level)
    THEN {[prev |-> NoCommand, out |-> o] : o \in abort(l, t, robot, "LowBattery")}
    ELSE UNION {
            IF c.err # "ok"
            THEN {[prev |-> NoCommand, out |-> c]}
            ELSE {[prev |-> c.cmd, out |-> o] : o \in Resolve(t, robot, instruction, c)} :
            c \in current(l, robot)}

----------------------------------------------------------------------------
(* The state machine *)

\* no call is being answered
NoCall == [op |-> "none"]

\* no call of Poll::poll is in progress
NoPoll == [pc |-> "none"]

\* the requests the backend works on at the same time
Slots == {1, 2}

Init ==
    /\ ledger = <<>>
    /\ now = 0
    /\ last = NoCall
    /\ polls = [s \in Slots |-> NoPoll]

\* the record of a call on the backend
Call(op, robot, instruction, o) ==
    [op |-> op,
     robot_serial_number |-> robot,
     instruction |-> instruction,
     time_issued |-> now,
     time_instruction |-> now,
     at |-> now,
     before |-> ledger,
     err |-> o.err,
     cmd |-> o.cmd,
     calls |-> o.calls,
     fault |-> o.fault]

\* chrono::Utc::now() when the next call reads it: the clock is finer than
\* the seconds counted here, and two rows the backend stamps one after the
\* other never carry the same stamp
Clock(l) == IF Len(l) > Len(ledger) THEN now + 1 ELSE now

\* time passes between two calls
Tick ==
    /\ last = NoCall
    /\ \E d \in TickSteps :
        /\ now + d <= MaxNow
        /\ now' = now + d
    /\ UNCHANGED <<ledger, last, polls>>

\* the response of the call leaves the backend
Return ==
    /\ last # NoCall
    /\ last' = NoCall
    /\ UNCHANGED <<ledger, now, polls>>

Command_idle ==
    /\ last = NoCall
    /\ \E robot \in Robots :
        \E o \in idle(ledger, now, robot) :
            /\ Len(o.ledger) <= MaxRows
            /\ ledger' = o.ledger
            /\ now' = Clock(o.ledger)
            /\ last' = Call("idle", robot, Idle, o)
    /\ UNCHANGED polls

Command_task ==
    /\ last = NoCall
    /\ \E robot \in Robots, pattern \in CleaningPattern :
        \E o \in task(ledger, now, robot, pattern) :
            /\ Len(o.ledger) <= MaxRows
            /\ ledger' = o.ledger
            /\ now' = Clock(o.ledger)
            /\ last' = Call("task", robot, Task(pattern), o)
    /\ UNCHANGED polls

\* Command::new called with the time stamps and the instruction of a request
NewWith(instructions, stamps) ==
    /\ last = NoCall
    /\ \E robot \in Robots, instruction \in instructions, s \in stamps :
        \E o \in new(ledger, now, robot, s[1], s[2], instruction) :
            /\ Len(o.ledger) <= MaxRows
            /\ ledger' = o.ledger
            /\ now' = Clock(o.ledger)
            /\ last' = [Call("new", robot, instruction, o)
                        EXCEPT !.time_issued = s[1], !.time_instruction = s[2]]
    /\ UNCHANGED polls

\* the caller stamps the command with the current time
Command_new == NewWith(Instruction, {<<now, now>>})

\* the time stamps of a request are off the clock of the backend by these
IssuedSkews ==
    {-(TIME_ISSUED_BUFFER + 1), -TIME_ISSUED_BUFFER, 0,
     TIME_ISSUED_BUFFER, TIME_ISSUED_BUFFER + 1}
InstructionSkews == {-TIME_INSTRUCTION_BUFFER, 0, TIME_INSTRUCTION_BUFFER}

\* the caller passes time stamps of its own
Command_new_stamped ==
    NewWith({Idle, Task("ZigZag")},
            {<<now + a, now + b>> : a \in IssuedSkews, b \in InstructionSkews})

\* complete is called on a Command read from the ledger
Command_complete ==
    /\ last = NoCall
    /\ \E k \in DOMAIN ledger :
        \E o \in complete(ledger, FromRow(ledger[k])) :
            /\ ledger' = o.ledger
            /\ now' = Clock(o.ledger)
            /\ last' = [Call("complete", ledger[k].robot_serial_number,
                             from_str(ledger[k].instruction), o)
                        EXCEPT !.cmd = [command_id |-> k]]
    /\ UNCHANGED polls

PollWith(instructions, levels) ==
    /\ last = NoCall
    /\ \E robot \in Robots, instruction \in instructions, battery_level \in levels :
        \E p \in poll(ledger, now, robot, instruction, battery_level) :
            /\ Len(p.out.ledger) <= MaxRows
            /\ ledger' = p.out.ledger
            /\ now' = Clock(p.out.ledger)
            /\ last' = [op |-> "poll",
                        robot_serial_number |-> robot,
                        instruction |-> instruction,
                        battery_level |-> battery_level,
                        at |-> now,
                        before |-> ledger,
                        prev |-> p.prev,
                        err |-> p.out.err,
                        cmd |-> p.out.cmd,
                        calls |-> p.out.calls,
                        fault |-> p.out.fault]
    /\ UNCHANGED polls

Poll_poll == PollWith(Instruction, BatteryLevels)

\* the polls of a robot that reports Idle or ZigZag
Poll_poll_idle_task ==
    PollWith({Idle, Task("ZigZag")},
             {MINIMUM_BATTERY_LEVEL, MINIMUM_BATTERY_LEVEL + 1})

Next ==
    \/ Tick
    \/ Return
    \/ Command_new
    \/ Command_idle
    \/ Command_task
    \/ Command_complete
    \/ Poll_poll

Spec == Init /\ [][Next]_vars

\* the backend when the callers of Command::new pass time stamps of their own
NextStamped ==
    \/ Tick
    \/ Return
    \/ Command_new_stamped
    \/ Command_complete
    \/ Poll_poll_idle_task

SpecStamped == Init /\ [][NextStamped]_vars

\* the callers of Command::new alone
NextIssuance ==
    \/ Tick
    \/ Return
    \/ Command_new_stamped

SpecIssuance == Init /\ [][NextIssuance]_vars

\* a text of column instruction that serde_json::from_str does not accept
Unparseable == "\"Safety\""

\* a row of table Commands whose instruction is not the encoding of an
\* Instruction: the table is written outside Command::new (the column is
\* text), the case current and pending cover with unwrap_or
Table_insert_unparseable ==
    /\ last = NoCall
    /\ Len(ledger) < MaxRows
    /\ \E robot \in Robots :
        /\ ledger' = Insert(ledger, robot, now, now, Unparseable)
        /\ now' = now + 1
    /\ UNCHANGED <<last, polls>>

\* the polls of a robot that reports Idle, ZigZag or an obstacle
Poll_poll_good_battery ==
    PollWith({Idle, Task("ZigZag"), Abort("Obstacle")}, {MINIMUM_BATTERY_LEVEL + 1})

\* the backend on a table that may hold rows it cannot decode
NextUnparseable ==
    \/ Tick
    \/ Return
    \/ Table_insert_unparseable
    \/ Command_idle
    \/ Command_task
    \/ Command_complete
    \/ Poll_poll_good_battery

SpecUnparseable == Init /\ [][NextUnparseable]_vars

----------------------------------------------------------------------------
(* Overlapping requests.  Poll::poll is an async fn: each query it awaits  *)
(* is one step on the database, and the steps of the calls in progress     *)
(* interleave.  What runs between two awaits runs with the step before it. *)

InFlight == {s \in Slots : polls[s].pc # "none"}

\* the call of slot s moves on to the state r
Moves(s, r) == polls' = [polls EXCEPT ![s] = r]

\* the call has run the queries of outcome o
Ran(r, o) == [r EXCEPT !.calls = @ \o o.calls, !.fault = @ \cup o.fault]

\* the call returns
Done(r, err, cmd) == [r EXCEPT !.pc = "done", !.err = err, !.cmd = cmd]

\* Poll::poll run to its first await: the INSERT of Command::abort when the
\* battery check fails, the SELECT of Command::current otherwise
Request(robot, instruction, battery_level) ==
    [pc |-> IF check_battery(battery_level) THEN "current" ELSE "insert",
     robot_serial_number |-> robot,
     instruction |-> instruction,
     battery_level |-> battery_level,
     at |-> now,
     before |-> ledger,
     prev |-> NoCommand,
     after |-> "insert",
     issue |-> Abort("LowBattery"),
     queue |-> <<>>,
     err |-> "ok",
     cmd |-> NoCommand,
     calls |-> <<>>,
     fault |-> {}]

\* a request arrives, of a robot that may have another request in progress
Poll_begin(robots, instructions, levels) ==
    /\ last = NoCall
    /\ Len(ledger) + Cardinality(InFlight) <= MaxRows
    /\ \E s \in Slots, robot \in robots, instruction \in instructions,
          battery_level \in levels :
        /\ polls[s].pc = "none"
        /\ \A f \in Slots : f < s => polls[f].pc # "none"
        /\ Moves(s, Request(robot, instruction, battery_level))
    /\ UNCHANGED <<ledger, now, last>>

\* a request arrives, of a robot that has no other request in progress
Poll_begin_apart(robots, instructions, levels) ==
    /\ last = NoCall
    /\ Len(ledger) + Cardinality(InFlight) <= MaxRows
    /\ \E s \in Slots, robot \in robots, instruction \in instructions,
          battery_level \in levels :
        /\ polls[s].pc = "none"
        /\ \A f \in Slots : f < s => polls[f].pc # "none"
        /\ \A f \in InFlight : polls[f].robot_serial_number # robot
        /\ Moves(s, Request(robot, instruction, battery_level))
    /\ UNCHANGED <<ledger, now, last>>

\* Command::current(..).await? and the match on what it returned
Await_current ==
    /\ \E s \in Slots :
        /\ polls[s].pc = "current"
        /\ \E c \in current(ledger, polls[s].robot_serial_number) :
            LET r == Ran(polls[s], c)
                arm == MatchArm(c.cmd.instruction, r.instruction)
            IN  IF c.err # "ok"
                THEN Moves(s, Done(r, c.err, NoCommand))
                ELSE Moves(s,
                        CASE arm = "abort" ->
                                [r EXCEPT !.pc = "complete", !.prev = c.cmd,
                                          !.after = "insert", !.issue = r.instruction]
                          [] arm = "same_task" ->
                                [Done(r, "ok", c.cmd) EXCEPT !.prev = c.cmd]
                          [] arm = "task_done" ->
                                [r EXCEPT !.pc = "complete", !.prev = c.cmd,
                                          !.after = "pending"]
                          [] arm = "idle" ->
                                [r EXCEPT !.pc = "pending", !.prev = c.cmd]
                          [] OTHER ->
                                [Done(r, "CmdInstructionNotSupported", NoCommand)
                                    EXCEPT !.prev = c.cmd])
    /\ UNCHANGED <<ledger, now, last>>

\* prev_command.complete(conn).await.ok()
Await_complete ==
    /\ \E s \in Slots :
        /\ polls[s].pc = "complete"
        /\ \E d \in complete(ledger, polls[s].prev) :
            /\ ledger' = d.ledger
            /\ Moves(s, [Ran(polls[s], d) EXCEPT !.pc = polls[s].after])
    /\ UNCHANGED <<now, last>>

\* the SELECT of Command::pending and the match on pending_commands.get(0)
Await_pending ==
    /\ \E s \in Slots :
        /\ polls[s].pc = "pending"
        /\ LET robot == polls[s].prev.robot_serial_number
               read == Outcome(ledger, "ok", NoCommand, <<<<"pending", robot>>>>, {})
               r == [Ran(polls[s], read) EXCEPT !.queue = ledger]
               to_idle == [r EXCEPT !.pc = "insert", !.issue = Idle]
           IN  \/ Moves(s, Done([r EXCEPT !.fault = @ \cup {"pending"}],
                                "DatabaseConnFailed", NoCommand))
               \/ /\ PendingHeads(ledger, robot) = {}
                  /\ Moves(s, to_idle)
               \/ \E k \in PendingHeads(ledger, robot) :
                      IF valid_time_instruction(FromRow(ledger[k]), now)
                      THEN Moves(s, Done(r, "ok", FromRow(ledger[k])))
                      ELSE Moves(s, to_idle)
    /\ UNCHANGED <<ledger, now, last>>

\* the INSERT of Command::new, called by Command::abort or Command::idle
Await_insert ==
    /\ \E s \in Slots :
        /\ polls[s].pc = "insert"
        /\ \E o \in new(ledger, now, polls[s].robot_serial_number, now, now,
                       polls[s].issue) :
            /\ ledger' = o.ledger
            /\ now' = Clock(o.ledger)
            /\ Moves(s, Done(Ran(polls[s], o), o.err, o.cmd))
    /\ UNCHANGED last

\* the response of a call leaves the backend
Poll_return ==
    /\ \E s \in Slots :
        /\ polls[s].pc = "done"
        /\ Moves(s, NoPoll)
    /\ UNCHANGED <<ledger, now, last>>

\* Command::idle or Command::task is called while no poll is in progress
Command_issued(robots) ==
    /\ last = NoCall
    /\ InFlight = {}
    /\ \E robot \in robots :
        \E o \in idle(ledger, now, robot) \cup task(ledger, now, robot, "ZigZag") :
            /\ Len(o.ledger) <= MaxRows
            /\ ledger' = o.ledger
            /\ now' = Clock(o.ledger)
    /\ UNCHANGED <<last, polls>>

\* time passes while no poll is in progress
Tick_quiet == InFlight = {} /\ Tick

\* one robot sends requests that overlap
Overlap_issued == Command_issued({"R1"})
Overlap_begin ==
    Poll_begin({"R1"}, {Idle, Task("ZigZag"), Abort("Obstacle")},
               {MINIMUM_BATTERY_LEVEL, MINIMUM_BATTERY_LEVEL + 1})

NextOverlap ==
    \/ Tick_quiet
    \/ Overlap_issued
    \/ Overlap_begin
    \/ Await_current
    \/ Await_complete
    \/ Await_pending
    \/ Await_insert
    \/ Poll_return

SpecOverlap == Init /\ [][NextOverlap]_vars

\* the robots of a fleet send requests, each robot one at a time, all within
\* one validity window: the clock moves with the rows stamped and no further
Fleet == {"R1", "R2"}
Fleet_issued == Command_issued(Fleet)
Fleet_begin ==
    Poll_begin_apart(Fleet, {Idle, Task("ZigZag"), Abort("Obstacle")},
                     {MINIMUM_BATTERY_LEVEL, MINIMUM_BATTERY_LEVEL + 1})

NextFleet ==
    \/ Fleet_issued
    \/ Fleet_begin
    \/ Await_current
    \/ Await_complete
    \/ Await_pending
    \/ Await_insert
    \/ Poll_return

SpecFleet == Init /\ [][NextFleet]_vars

----------------------------------------------------------------------------
(* Properties.  They are stated on the response of a call: last holds the  *)
(* arguments of the call, the ledger before it (last.before), the time it  *)
(* ran at (last.at) and what it returned; ledger is the ledger after it.   *)

IsPoll == last.op = "poll"

\* the poll reported a battery level of 51 to 100
GoodBattery ==
    /\ last.battery_level > MINIMUM_BATTERY_LEVEL
    /\ last.battery_level <= 100

\* the rows of the robot with the greatest time_issued: its current command
Latest(l, robot) ==
    {k \in DOMAIN l :
        /\ l[k].robot_serial_number = robot
        /\ \A j \in DOMAIN l :
              l[j].robot_serial_number = robot => l[j].time_issued <= l[k].time_issued}

\* the call appended exactly one row and changed no other
AppendedOne ==
    /\ Len(ledger) = Len(last.before) + 1
    /\ \A k \in DOMAIN last.before : ledger[k] = last.before[k]

\* the call appended one row and completed row id; it changed no other
AppendedOneCompleting(id) ==
    /\ Len(ledger) = Len(last.before) + 1
    /\ \A k \in DOMAIN last.before :
          ledger[k] = IF k = id THEN [last.before[k] EXCEPT !.completed = TRUE]
                      ELSE last.before[k]

\* the last row of the ledger is the Command the call returned, issued at the
\* time of the call with the given instruction, and is not completed
ReturnedFresh(instruction) ==
    /\ last.err = "ok"
    /\ last.cmd = [command_id |-> Len(ledger),
                   robot_serial_number |-> last.robot_serial_number,
                   time_issued |-> last.at,
                   time_instruction |-> last.at,
                   instruction |-> instruction,
                   completed |-> FALSE]
    /\ last.cmd.command_id \notin DOMAIN last.before
    /\ LET row == ledger[Len(ledger)]
       IN  /\ row.command_id = last.cmd.command_id
           /\ row.robot_serial_number = last.robot_serial_number
           /\ row.time_issued = last.at
           /\ row.time_instruction = last.at
           /\ from_str(row.instruction) = instruction
           /\ row.completed = FALSE

(* C1: a poll whose battery level is below 0, at most MINIMUM_BATTERY_LEVEL *)
(* or above 100 runs one query only, the INSERT of a new command (it reads  *)
(* no previous command and completes none); unless the database fails on   *)
(* it, exactly one row is appended, Abort(LowBattery) and not completed,   *)
(* for the polling robot, and it is the Command returned, whatever the     *)
(* ledger and the reported instruction.  A poll with a level of 51 to 100  *)
(* starts by reading the current command instead.                          *)
C1_BatteryOverride ==
    IsPoll =>
        IF \/ last.battery_level < 0
           \/ last.battery_level <= MINIMUM_BATTERY_LEVEL
           \/ last.battery_level > 100
        THEN /\ last.calls = << <<"insert", last.robot_serial_number>> >>
             /\ last.prev = NoCommand
             /\ IF "insert" \in last.fault
                THEN last.err # "ok" /\ ledger = last.before
                ELSE AppendedOne /\ ReturnedFresh(Abort("LowBattery"))
        ELSE /\ last.calls # <<>>
             /\ last.calls[1] = <<"current", last.robot_serial_number>>

\* a robot without history reports battery 0 and a task, and is told to abort
C1_Witness ==
    /\ IsPoll
    /\ last.battery_level = 0
    /\ last.instruction = Task("ZigZag")
    /\ last.before = <<>>
    /\ last.err = "ok"
    /\ last.cmd.instruction = Abort("LowBattery")

(* C2: a poll with a good battery that reports Abort(r), for a robot whose  *)
(* current command was read, whatever its instruction, (a) calls complete   *)
(* on that command, which is completed afterwards unless the database      *)
(* fails on the UPDATE, and (b) then inserts a new command, which unless   *)
(* the database fails on the INSERT is appended and returned with          *)
(* instruction Abort(r), the same r, and completed = false.                *)
C2_AbortPoll ==
    (IsPoll /\ GoodBattery /\ IsAbort(last.instruction) /\ last.prev # NoCommand) =>
        /\ last.prev.command_id \in Latest(last.before, last.robot_serial_number)
        /\ last.calls = << <<"current", last.robot_serial_number>>,
                           <<"complete", last.prev.command_id>>,
                           <<"insert", last.robot_serial_number>> >>
        /\ "complete" \notin last.fault =>
              ledger[last.prev.command_id].completed
        /\ "insert" \notin last.fault =>
              /\ ReturnedFresh(Abort(last.instruction[2]))
              /\ IF "complete" \in last.fault
                 THEN AppendedOne
                 ELSE AppendedOneCompleting(last.prev.command_id)

\* a robot busy with a task reports an obstacle
C2_Witness ==
    /\ IsPoll
    /\ GoodBattery
    /\ last.instruction = Abort("Obstacle")
    /\ last.prev # NoCommand
    /\ last.prev.instruction = Task("ZigZag")
    /\ ~last.prev.completed
    /\ last.fault = {}
    /\ last.err = "ok"
    /\ ledger[last.prev.command_id].completed

(* C3: when the current command of the robot, the one row of greatest     *)
(* time_issued, is Task(P) and the robot polls Task(P), the same pattern,  *)
(* with a good battery, the database not failing, the poll returns that    *)
(* command, with its id, and leaves the ledger as it was: no row is        *)
(* appended and none completed.  The ledger being unchanged, the next such *)
(* poll finds the same state and returns the same command again.           *)
C3_TaskContinuation ==
    (/\ IsPoll
     /\ GoodBattery
     /\ IsTask(last.instruction)
     /\ "current" \notin last.fault
     /\ \E k \in DOMAIN last.before :
            /\ Latest(last.before, last.robot_serial_number) = {k}
            /\ from_str(last.before[k].instruction) = last.instruction) =>
        /\ last.err = "ok"
        /\ \A k \in Latest(last.before, last.robot_serial_number) :
              /\ last.cmd.command_id = k
              /\ last.cmd.completed = last.before[k].completed
        /\ last.cmd.instruction = last.instruction
        /\ last.cmd.robot_serial_number = last.robot_serial_number
        /\ ledger = last.before
        /\ last.calls = << <<"current", last.robot_serial_number>> >>

\* a robot at work on ZigZag polls ZigZag and gets its command back
C3_Witness ==
    /\ IsPoll
    /\ GoodBattery
    /\ last.instruction = Task("ZigZag")
    /\ last.err = "ok"
    /\ last.cmd.instruction = Task("ZigZag")
    /\ last.cmd.command_id \in DOMAIN last.before
    /\ ledger = last.before

(* C4: with a good battery and the current command read, a poll that       *)
(* reports Continue, Pause, or a Task other than the task of the current   *)
(* command fails with CmdInstructionNotSupported, returns no Command and   *)
(* leaves the ledger as it was.                                            *)
C4_Unsupported ==
    (/\ IsPoll
     /\ GoodBattery
     /\ last.prev # NoCommand
     /\ \/ last.instruction \in {Continue, Pause}
        \/ IsTask(last.instruction) /\ last.prev.instruction # last.instruction) =>
        /\ last.err = "CmdInstructionNotSupported"
        /\ last.cmd = NoCommand
        /\ ledger = last.before

\* a robot at work on ZigZag polls Circular
C4_Witness ==
    /\ IsPoll
    /\ GoodBattery
    /\ last.prev # NoCommand
    /\ last.prev.instruction = Task("ZigZag")
    /\ last.instruction = Task("Circular")
    /\ last.err = "CmdInstructionNotSupported"
    /\ ledger = last.before

(* C5: a poll Idle with a good battery by a robot that has no row in the   *)
(* ledger succeeds, the database not failing, and returns a new Idle       *)
(* command, not completed, which is then the only row of the robot.        *)
C5_FirstIdlePoll ==
    (/\ IsPoll
     /\ GoodBattery
     /\ last.instruction = Idle
     /\ RowsOf(last.before, last.robot_serial_number) = {}
     /\ last.fault = {}) =>
        /\ AppendedOne
        /\ ReturnedFresh(Idle)
        /\ RowsOf(ledger, last.robot_serial_number) = {Len(ledger)}

\* the incomplete rows of the robot in ledger l
Incomplete(l, robot) ==
    {k \in DOMAIN l : l[k].robot_serial_number = robot /\ ~l[k].completed}

\* the incomplete rows of the robot with the greatest time_instruction
Heads(l, robot) ==
    {k \in Incomplete(l, robot) :
        \A j \in Incomplete(l, robot) : l[j].time_instruction <= l[k].time_instruction}

\* |t - stamp| in seconds
Apart(t, stamp) == IF t >= stamp THEN t - stamp ELSE stamp - t

\* the Command a row of the ledger stands for, no field changed
AsStored(row) == [row EXCEPT !.instruction = from_str(row.instruction)]

(* C6, for a stale command that is not the current Task command of the    *)
(* robot (a Task that the poll completes, as the match says): when the     *)
(* only incomplete command of the robot has a time_instruction at least    *)
(* the validity buffer in the past and the robot polls Idle with a good    *)
(* battery, the database not failing, the poll returns a new Idle command, *)
(* not the stale one, and the stale command is still incomplete afterwards.*)
C6_StalePending ==
    (IsPoll /\ GoodBattery /\ last.instruction = Idle /\ last.fault = {}) =>
        \A stale \in DOMAIN last.before :
            (/\ Incomplete(last.before, last.robot_serial_number) = {stale}
             /\ last.at - last.before[stale].time_instruction
                    >= TIME_INSTRUCTION_BUFFER
             /\ ~(/\ stale \in Latest(last.before, last.robot_serial_number)
                  /\ IsTask(from_str(last.before[stale].instruction)))) =>
                /\ AppendedOne
                /\ ReturnedFresh(Idle)
                /\ last.cmd.command_id # stale
                /\ ~ledger[stale].completed

(* C7: robot R1 has no history and polls with battery 90, the database not *)
(* failing: (1) Idle returns a new Idle command, not completed; (2) then   *)
(* Task(ZigZag) returns a new Task(ZigZag) command; (3) Task(ZigZag) again *)
(* returns the command of step 2, with its id; (4) then Idle marks the     *)
(* Task command complete and returns an Idle command or a valid pending    *)
(* one.  Each step is told by the ledger the steps before it have left.    *)
C7_Scenario ==
    (/\ IsPoll
     /\ last.robot_serial_number = "R1"
     /\ last.battery_level = 90
     /\ last.fault = {}) =>
        LET b == last.before
            idle_row(k) ==
                /\ b[k].command_id = k
                /\ b[k].robot_serial_number = "R1"
                /\ from_str(b[k].instruction) = Idle
                /\ ~b[k].completed
            task_row(k) ==
                /\ b[k].command_id = k
                /\ b[k].robot_serial_number = "R1"
                /\ from_str(b[k].instruction) = Task("ZigZag")
                /\ ~b[k].completed
                /\ b[k].time_issued > b[1].time_issued
        IN  /\ (b = <<>> /\ last.instruction = Idle) =>
                  AppendedOne /\ ReturnedFresh(Idle)
            /\ (Len(b) = 1 /\ idle_row(1) /\ last.instruction = Task("ZigZag")) =>
                  AppendedOne /\ ReturnedFresh(Task("ZigZag"))
            /\ (Len(b) = 2 /\ idle_row(1) /\ task_row(2)
                    /\ last.instruction = Task("ZigZag")) =>
                  /\ last.err = "ok"
                  /\ last.cmd.command_id = 2
                  /\ ledger = b
            /\ (Len(b) = 2 /\ idle_row(1) /\ task_row(2) /\ last.instruction = Idle) =>
                  /\ last.err = "ok"
                  /\ ledger[2].completed
                  /\ ~last.cmd.completed
                  /\ last.cmd.command_id # 2
                  /\ \/ last.cmd.instruction = Idle
                     \/ /\ last.cmd.command_id \in DOMAIN b
                        /\ Apart(last.at, b[last.cmd.command_id].time_instruction)
                              < TIME_INSTRUCTION_BUFFER

(* C8: on an Idle poll with a good battery, the current command read and   *)
(* the database not failing, let head be the incomplete command of the     *)
(* robot with the greatest time_instruction once the poll has completed a  *)
(* previous Task.  If there is one and |now - head.time_instruction| is    *)
(* less than TIME_INSTRUCTION_BUFFER the poll returns head, no field       *)
(* changed, and appends no row; otherwise it appends and returns a new     *)
(* Idle command.  Also for rows whose time_instruction is not their        *)
(* time_issued.                                                            *)
C8_PendingResolution ==
    (/\ IsPoll
     /\ GoodBattery
     /\ last.instruction = Idle
     /\ last.prev # NoCommand
     /\ last.fault = {}) =>
        LET queue == IF IsTask(last.prev.instruction)
                     THEN [k \in DOMAIN last.before |->
                             IF k = last.prev.command_id
                             THEN [last.before[k] EXCEPT !.completed = TRUE]
                             ELSE last.before[k]]
                     ELSE last.before
            heads == Heads(queue, last.robot_serial_number)
        IN  IF \E h \in heads :
                  Apart(last.at, queue[h].time_instruction) < TIME_INSTRUCTION_BUFFER
            THEN /\ last.err = "ok"
                 /\ \E h \in heads : last.cmd = AsStored(queue[h])
                 /\ ledger = queue
            ELSE /\ Len(ledger) = Len(queue) + 1
                 /\ \A k \in DOMAIN queue : ledger[k] = queue[k]
                 /\ ReturnedFresh(Idle)

(* C9: on an Idle poll with a good battery, the current command read: when *)
(* its instruction is a Task the poll calls complete on it before it reads *)
(* the pending commands, and unless the database fails on the UPDATE the   *)
(* row is completed afterwards and is not the Command returned; when its   *)
(* instruction is anything else the poll does not call complete and the    *)
(* completed flag of the row is after the poll what it was before.         *)
C9_IdleCompletesTask ==
    (/\ IsPoll
     /\ GoodBattery
     /\ last.instruction = Idle
     /\ last.prev # NoCommand) =>
        LET id == last.prev.command_id
        IN  /\ id \in Latest(last.before, last.robot_serial_number)
            /\ IF IsTask(from_str(last.before[id].instruction))
               THEN /\ Len(last.calls) >= 3
                    /\ last.calls[1] = <<"current", last.robot_serial_number>>
                    /\ last.calls[2] = <<"complete", id>>
                    /\ last.calls[3] = <<"pending", last.robot_serial_number>>
                    /\ "complete" \notin last.fault =>
                          /\ ledger[id].completed
                          /\ last.cmd.command_id # id
               ELSE /\ \A n \in DOMAIN last.calls : last.calls[n][1] # "complete"
                    /\ ledger[id].completed = last.before[id].completed

\* a robot done with its task polls Idle
C9_Witness ==
    /\ IsPoll
    /\ GoodBattery
    /\ last.instruction = Idle
    /\ last.prev # NoCommand
    /\ IsTask(last.prev.instruction)
    /\ ~last.before[last.prev.command_id].completed
    /\ last.fault = {}
    /\ last.err = "ok"
    /\ ledger[last.prev.command_id].completed
    /\ last.cmd.command_id # last.prev.command_id

(* C10: no step removes a row of the ledger or changes the command_id, the *)
(* robot_serial_number, the time_issued, the time_instruction or the       *)
(* instruction of a row: a step can only append rows and change completed. *)
C10_AppendOnly ==
    [][/\ Len(ledger') >= Len(ledger)
       /\ \A k \in DOMAIN ledger :
             /\ ledger'[k].command_id = ledger[k].command_id
             /\ ledger'[k].robot_serial_number = ledger[k].robot_serial_number
             /\ ledger'[k].time_issued = ledger[k].time_issued
             /\ ledger'[k].time_instruction = ledger[k].time_instruction
             /\ ledger'[k].instruction = ledger[k].instruction]_vars

\* a poll has completed a row and appended another
C10_Witness ==
    /\ IsPoll
    /\ Len(ledger) = Len(last.before) + 1
    /\ \E k \in DOMAIN last.before :
          /\ ~last.before[k].completed
          /\ ledger[k].completed
          /\ [ledger[k] EXCEPT !.completed = FALSE] = last.before[k]

\* the step ran the UPDATE of Command::complete on row id
Completes(calls, id) == \E n \in DOMAIN calls : calls[n] = <<"complete", id>>

(* C11: every row is appended with completed = false; in every step the    *)
(* flag of a row stays as it is or goes from false to true, never back; it *)
(* changes only in a step that runs the UPDATE of complete on the id of    *)
(* that row, never because a command was appended; and complete called on  *)
(* a row that is complete already returns Ok and leaves the ledger as it   *)
(* was, unless the database itself fails.                                  *)
C11_CompletedFlag ==
    [][/\ \A k \in DOMAIN ledger' :
             k \notin DOMAIN ledger => ~ledger'[k].completed
       /\ \A k \in DOMAIN ledger :
             /\ ledger[k].completed => ledger'[k].completed
             /\ ledger'[k].completed # ledger[k].completed =>
                   Completes(last'.calls, ledger[k].command_id)
       /\ (/\ last'.op = "complete"
           /\ last'.fault = {}
           /\ ledger[last'.cmd.command_id].completed) =>
               /\ last'.err = "ok"
               /\ ledger' = ledger]_vars

\* complete has been called on a row that was complete already
C11_Witness ==
    /\ last.op = "complete"
    /\ last.fault = {}
    /\ last.before[last.cmd.command_id].completed
    /\ last.err = "ok"
    /\ ledger = last.before

\* the text is the encoding of an Instruction
Parseable(text) == \E i \in Instruction : to_string(i) = text

(* C12: a poll with a good battery that loads a row whose instruction text *)
(* does not parse returns an error and goes no further, also when the      *)
(* database answers every query: when the current                          *)
(* command of the robot is such a row the poll runs no query after the     *)
(* read of current and leaves the ledger as it was, and the Command a poll *)
(* returns is never such a row (decoded as Abort(Saftey)).                 *)
C12_NoSilentDefault ==
    (IsPoll /\ GoodBattery /\ last.fault = {}) =>
        /\ (/\ last.prev # NoCommand
            /\ ~Parseable(last.before[last.prev.command_id].instruction)) =>
                /\ last.err # "ok"
                /\ last.calls = << <<"current", last.robot_serial_number>> >>
                /\ ledger = last.before
        /\ (last.err = "ok" /\ last.cmd.command_id \in DOMAIN last.before) =>
                Parseable(last.before[last.cmd.command_id].instruction)

(* C13: a poll that returns an error because the database failed on a      *)
(* mandatory query (the INSERT of the new command, the read of the current *)
(* command or the read of the pending commands) leaves the ledger as it    *)
(* was before the poll, the previous command not completed by it, and      *)
(* returns no Command.                                                     *)
C13_FailedPollNoWrite ==
    (/\ IsPoll
     /\ last.err # "ok"
     /\ last.fault \cap {"insert", "current", "pending"} # {}) =>
        /\ ledger = last.before
        /\ last.cmd = NoCommand

(* C14: Command::new called at time t with |t - time_issued|, in whole     *)
(* seconds, greater than TIME_ISSUED_BUFFER returns                         *)
(* CommandNotInTimeIssuedBuffer, runs no query and appends no row; with    *)
(* |t - time_issued| <= TIME_ISSUED_BUFFER, the boundary included and      *)
(* whatever time_instruction is, it runs the INSERT and, unless the        *)
(* database fails on it, appends one row and returns it as a Command with  *)
(* the stamps and the instruction it was given and completed = false.  The *)
(* same for time_issued before and after t.                                *)
C14_IssuanceWindow ==
    last.op = "new" =>
        IF Apart(last.at, last.time_issued) > TIME_ISSUED_BUFFER
        THEN /\ last.err = "CommandNotInTimeIssuedBuffer"
             /\ last.cmd = NoCommand
             /\ last.calls = <<>>
             /\ ledger = last.before
        ELSE /\ last.calls = << <<"insert", last.robot_serial_number>> >>
             /\ IF "insert" \in last.fault
                THEN last.err = "DatabaseConnFailed" /\ ledger = last.before
                ELSE /\ last.err = "ok"
                     /\ AppendedOne
                     /\ last.cmd = [command_id |-> Len(ledger),
                                    robot_serial_number |-> last.robot_serial_number,
                                    time_issued |-> last.time_issued,
                                    time_instruction |-> last.time_instruction,
                                    instruction |-> last.instruction,
                                    completed |-> FALSE]
                     /\ AsStored(ledger[Len(ledger)]) = last.cmd

\* a command stamped TIME_ISSUED_BUFFER seconds ahead of the clock, for
\* another time_instruction, is accepted
C14_Witness ==
    /\ last.op = "new"
    /\ last.time_issued = last.at + TIME_ISSUED_BUFFER
    /\ last.time_instruction = last.at - TIME_INSTRUCTION_BUFFER
    /\ last.err = "ok"
    /\ Len(ledger) = Len(last.before) + 1
    /\ ~ledger[Len(ledger)].completed

\* a command stamped one second more than the buffer ahead is rejected
C14_WitnessRejected ==
    /\ last.op = "new"
    /\ last.time_issued = last.at + TIME_ISSUED_BUFFER + 1
    /\ last.err = "CommandNotInTimeIssuedBuffer"

(* C15: on a poll with a good battery, when the database fails on the      *)
(* UPDATE of complete and on no other query, the poll returns Ok and the   *)
(* previous command keeps the flag it had: in the Abort arm the new        *)
(* Abort(reason) command is appended and returned; in the (Task(_), Idle)  *)
(* arm either a head of the incomplete commands of the robot is returned   *)
(* and the ledger is as it was, or a new Idle command is appended and      *)
(* returned.                                                               *)
C15_CompleteFailureSwallowed ==
    (/\ IsPoll
     /\ GoodBattery
     /\ last.prev # NoCommand
     /\ last.fault = {"complete"}) =>
        /\ last.err = "ok"
        /\ last.instruction = Idle => IsTask(last.prev.instruction)
        /\ ledger[last.prev.command_id] = last.before[last.prev.command_id]
        /\ IF IsAbort(last.instruction)
           THEN AppendedOne /\ ReturnedFresh(Abort(last.instruction[2]))
           ELSE \/ /\ ledger = last.before
                   /\ last.cmd.command_id \in Heads(last.before, last.robot_serial_number)
                   /\ ~last.cmd.completed
                \/ AppendedOne /\ ReturnedFresh(Idle)

\* the UPDATE fails on the task of a robot that reports an obstacle
C15_Witness ==
    /\ IsPoll
    /\ GoodBattery
    /\ last.instruction = Abort("Obstacle")
    /\ last.prev # NoCommand
    /\ IsTask(last.prev.instruction)
    /\ last.fault = {"complete"}
    /\ last.err = "ok"
    /\ last.cmd.instruction = Abort("Obstacle")
    /\ ~ledger[last.prev.command_id].completed

\* the UPDATE fails on the task of a robot that reports Idle: the task is
\* still the head of the incomplete commands and is returned
C15_WitnessIdle ==
    /\ IsPoll
    /\ GoodBattery
    /\ last.instruction = Idle
    /\ last.prev # NoCommand
    /\ IsTask(last.prev.instruction)
    /\ last.fault = {"complete"}
    /\ last.err = "ok"
    /\ last.cmd.command_id = last.prev.command_id

\* the calls of both slots have returned Ok to Idle polls of one robot that
\* began on the same ledger at the same time, the database not failing, and
\* each read the incomplete commands before either appended a row and found
\* none of them valid
BothReadThenAppended ==
    /\ \A s \in Slots :
          /\ polls[s].pc = "done"
          /\ polls[s].instruction = Idle
          /\ polls[s].fault = {}
          /\ polls[s].err = "ok"
          /\ polls[s].before = polls[1].before
          /\ polls[s].at = polls[1].at
          /\ polls[s].robot_serial_number = polls[1].robot_serial_number
          /\ polls[s].queue # <<>>
          /\ Len(polls[s].queue) = Len(polls[s].before)
          /\ polls[s].calls[Len(polls[s].calls)][1] = "insert"

\* the results of the two polls run one after the other, the database not
\* failing: the ledger they leave and the Commands they return
SerialPolls(l, t, robot, instruction, battery_level) ==
    {<<y.out.ledger, x.out, y.out>> :
        x \in {a \in poll(l, t, robot, instruction, battery_level) : a.out.fault = {}},
        y \in UNION {
                {c \in poll(a.out.ledger,
                            IF Len(a.out.ledger) > Len(l) THEN t + 1 ELSE t,
                            robot, instruction, battery_level) : c.out.fault = {}} :
                a \in {a \in poll(l, t, robot, instruction, battery_level) :
                          a.out.fault = {}}}}

(* C16: two Idle polls of one robot whose calls overlap, each query atomic, *)
(* that both read the incomplete commands before either appends and find   *)
(* no valid one each append an Idle row of their own and return it: two    *)
(* rows, two ids.  Run one after the other from the same ledger, in either *)
(* order, the two polls append exactly one row and both return it.  So the *)
(* overlapping run has the result of no serial order.                      *)
C16_NotLinearizable ==
    BothReadThenAppended =>
        LET b == polls[1].before
            serial == SerialPolls(b, polls[1].at, polls[1].robot_serial_number,
                                  Idle, polls[1].battery_level)
        IN  /\ Len(ledger) = Len(b) + 2
            /\ polls[1].cmd.command_id # polls[2].cmd.command_id
            /\ \A s \in Slots :
                  /\ polls[s].cmd.command_id \notin DOMAIN b
                  /\ polls[s].cmd.instruction = Idle
                  /\ AsStored(ledger[polls[s].cmd.command_id]) = polls[s].cmd
            /\ serial # {}
            /\ \A r \in serial :
                  /\ r[2].err = "ok"
                  /\ r[3].err = "ok"
                  /\ Len(r[1]) = Len(b) + 1
                  /\ r[2].cmd.command_id = r[3].cmd.command_id
                  /\ r[2].cmd.command_id = Len(b) + 1
            /\ \A r \in serial :
                  ~(/\ Len(r[1]) = Len(ledger)
                    /\ {r[2].cmd.command_id, r[3].cmd.command_id}
                          = {polls[1].cmd.command_id, polls[2].cmd.command_id})

\* both polls have read an empty queue and then issued an Idle command each
C16_Witness ==
    /\ BothReadThenAppended
    /\ Len(ledger) = Len(polls[1].before) + 2
    /\ polls[1].cmd.command_id # polls[2].cmd.command_id

\* the ledger as it would be with the rows of the robot alone, the serial
\* key counting those rows only
Own(l, robot) ==
    LET rows == SelectSeq(l, LAMBDA row : row.robot_serial_number = robot)
    IN  [k \in 1..Len(rows) |-> [rows[k] EXCEPT !.command_id = k]]

\* the Command as it reads in the ledger of the robot alone
OwnCmd(l, robot, cmd) ==
    IF cmd = NoCommand
    THEN NoCommand
    ELSE [cmd EXCEPT !.command_id =
            Cardinality({j \in 1..cmd.command_id : l[j].robot_serial_number = robot})]

\* the call r, which has returned at time t leaving ledger l, has the outcome
\* of a poll of its robot on the rows of that robot alone, run at some
\* moment of the call
AsIfAlone(r, l, t) ==
    \E at \in r.at..t :
        \E x \in poll(Own(r.before, r.robot_serial_number), at,
                       r.robot_serial_number, r.instruction, r.battery_level) :
            /\ x.out.err = r.err
            /\ x.out.fault = r.fault
            /\ Len(x.out.calls) = Len(r.calls)
            /\ \A n \in DOMAIN r.calls : x.out.calls[n][1] = r.calls[n][1]
            /\ x.prev = OwnCmd(l, r.robot_serial_number, r.prev)
            /\ x.out.cmd = OwnCmd(l, r.robot_serial_number, r.cmd)
            /\ x.out.ledger = Own(l, r.robot_serial_number)

(* C17: while the robots of a fleet poll at the same time, one call for    *)
(* each robot, every step of the call of robot A appends only rows of A    *)
(* and changes only rows of A, so that the rows of the other robots are    *)
(* as they were; and when the call returns, the Command it returns is of   *)
(* robot A and its outcome (error, Command, rows of A) is that of a poll   *)
(* of A on a ledger that holds the rows of A alone.                        *)
C17_RobotsIsolated ==
    [][\A s \in Slots :
          (polls[s].pc # "none" /\ polls'[s] # polls[s]) =>
              LET robot == polls[s].robot_serial_number
              IN  /\ Len(ledger') >= Len(ledger)
                  /\ \A k \in DOMAIN ledger' :
                        IF k \in DOMAIN ledger
                        THEN ledger'[k] # ledger[k] =>
                                ledger[k].robot_serial_number = robot
                        ELSE ledger'[k].robot_serial_number = robot
                  /\ polls'[s].pc = "done" =>
                        /\ polls'[s].err = "ok" =>
                              polls'[s].cmd.robot_serial_number = robot
                        /\ AsIfAlone(polls'[s], ledger', now)]_vars

\* the poll of R1 has returned a command it appended after a row that a
\* poll of R2 appended while the poll of R1 was in progress
C17_Witness ==
    \E s \in Slots :
        /\ polls[s].pc = "done"
        /\ polls[s].robot_serial_number = "R1"
        /\ polls[s].err = "ok"
        /\ polls[s].calls # <<>>
        /\ polls[s].calls[1][1] = "current"
        /\ polls[s].cmd.command_id > Len(polls[s].before) + 1
        /\ \E k \in DOMAIN ledger :
              /\ k > Len(polls[s].before)
              /\ k < polls[s].cmd.command_id
              /\ ledger[k].robot_serial_number = "R2"

(* C18: after a poll that returns Ok, the Command returned is the current  *)
(* command of the robot in the ledger, the row of greatest time_issued     *)
(* that the next poll reads as its previous command; also when pending     *)
(* returns an incomplete command from the ledger and appends none.         *)
C18_ReturnedIsCurrent ==
    (IsPoll /\ last.err = "ok") =>
        /\ last.cmd.command_id \in DOMAIN ledger
        /\ Latest(ledger, last.robot_serial_number) = {last.cmd.command_id}
        /\ \A c \in current(ledger, last.robot_serial_number) :
              c.fault = {} => c.cmd.command_id = last.cmd.command_id

(* C19: the Command a poll returns with Ok has completed = false, and the  *)
(* row it stands for is not complete in the ledger when the poll returns,  *)
(* whatever polls and calls came before; also when the poll returns the    *)
(* current command because the robot reports the Task it holds.            *)
C19_ReturnedIncomplete ==
    (IsPoll /\ last.err = "ok") =>
        /\ ~last.cmd.completed
        /\ last.cmd.command_id \in DOMAIN ledger
        /\ ~ledger[last.cmd.command_id].completed

\* the battery levels of further polls
FurtherLevels == {MINIMUM_BATTERY_LEVEL + 1, 90, 100}

====
